---- MODULE Spec2Model ----
(***************************************************************************)
(* Model of app.py: a Flask application object with one route, "/",        *)
(* served by home_page.  The module is loaded statement by statement       *)
(* (Flask(__name__), then @app.route('/') applied to home_page); after     *)
(* that the application serves requests.  Each request goes through the    *)
(* steps Flask's wsgi_app takes for it: URL matching, dispatch to the view *)
(* function, and sending the response.  Requests are independent slots, so *)
(* the steps of different requests interleave freely.                      *)
(*                                                                         *)
(* A URL path is the tuple of its segments: "/" is << >>, "/nonexistent"   *)
(* is <<"nonexistent">>, "/static/a.css" is <<"static", "a.css">>.         *)
(***************************************************************************)
EXTENDS Naturals, Sequences, FiniteSets

\* Number of request slots (requests that can be in flight together).
MaxRequests == 2

Requests == 1..MaxRequests

Methods == {"GET", "HEAD", "POST", "OPTIONS", "DELETE"}

Root == << >>

Paths == {Root, <<"nonexistent">>, <<"static", "a.css">>}

VARIABLES phase, url_map, view_functions, reqs, effects, sent

vars == <<phase, url_map, view_functions, reqs, effects, sent>>

NoOutcome == [kind |-> "none", value |-> "", effects |-> {}]

NoResponse == [status |-> 0, body |-> "", content_type |-> ""]

FreeSlot ==
  [state |-> "free", method |-> "GET", path |-> Root, endpoint |-> "",
   invoked |-> FALSE, outcome |-> NoOutcome, resp |-> NoResponse, seq |-> 0]

\* Number of responses already written to clients.
served == Cardinality({i \in Requests : reqs[i].state = "responded"})

\* Requests that are inside the application right now.
inFlight == {i \in Requests : reqs[i].state \in {"accepted", "matched", "dispatched"}}

----------------------------------------------------------------------------
(* app.py, lines 6-7: the view function.  Its whole body is one return of  *)
(* a string literal: it returns normally, with that value, and does        *)
(* nothing else.                                                           *)

home_page_typo ==
  [kind |-> "return", value |-> "Hello from my Flask app", effects |-> {}]

home_page_drift ==
  [kind |-> "return",
   value |-> IF served = 0 THEN "Hello from my Flask app!" ELSE "Hello again!",
   effects |-> {}]

home_page_racy ==
  [kind |-> "return",
   value |-> IF Cardinality(inFlight) > 1 THEN "Hello from my Fl" ELSE "Hello from my Flask app!",
   effects |-> {}]

home_page_logging ==
  [kind |-> "return", value |-> "Hello from my Flask app!", effects |-> {"log"}]

home_page_raises ==
  [kind |-> "raise", value |-> "Exception", effects |-> {}]

home_page_blocks ==
  [kind |-> "block", value |-> "", effects |-> {}]

home_page ==
  [kind |-> "return", value |-> "Hello from my Flask app!", effects |-> {}]

(* app.py, line 5: the rule string given to app.route.                     *)
route_rule_nonexistent == <<"nonexistent">>

route_rule == Root

(* app.py, line 5: app.route is called without a methods argument, so the  *)
(* rule is registered for the default, ("GET",).                           *)
route_methods_post == {"GET", "POST"}

route_methods == {"GET"}

(* app.py, line 3: Flask(__name__) keeps the default static_folder,        *)
(* "static", next to the module.  The repository has no such directory,    *)
(* so no file can be served from it.                                       *)
static_files == {}

----------------------------------------------------------------------------
(* Flask.add_url_rule and werkzeug's Rule: OPTIONS is added to the         *)
(* methods (answered automatically), and HEAD is added to every rule that  *)
(* has GET.                                                                *)
rule_methods(methods) ==
  methods \cup {"OPTIONS"} \cup (IF "GET" \in methods THEN {"HEAD"} ELSE {})

(* The rule Flask(__name__) registers for the static folder:               *)
(* "/static/<path:filename>", endpoint "static".                           *)
static_rule ==
  [prefix |-> <<"static">>, converter |-> "path", endpoint |-> "static",
   methods |-> rule_methods({"GET"}), provide_automatic_options |-> TRUE]

(* The rule @app.route('/') registers for home_page.                       *)
home_rule ==
  [prefix |-> route_rule, converter |-> "none", endpoint |-> "home_page",
   methods |-> rule_methods(route_methods),
   provide_automatic_options |-> "OPTIONS" \notin route_methods]

(* werkzeug: does the rule's pattern match the path?  A plain rule matches *)
(* its own path; <path:filename> matches one or more further segments.     *)
rule_matches(rule, path) ==
  IF rule.converter = "none"
    THEN path = rule.prefix
    ELSE /\ Len(path) > Len(rule.prefix)
         /\ SubSeq(path, 1, Len(rule.prefix)) = rule.prefix

(* werkzeug MapAdapter.match: the endpoint of a rule that matches path and *)
(* method; MethodNotAllowed when a rule matches the path only; NotFound    *)
(* when none does.                                                         *)
match(map, method, path) ==
  LET byPath == {r \in map : rule_matches(r, path)}
      full   == {r \in byPath : method \in r.methods}
  IN  IF full # {} THEN (CHOOSE r \in full : TRUE).endpoint
      ELSE IF byPath # {} THEN "MethodNotAllowed"
      ELSE "NotFound"

(* The rule that was matched, for an endpoint of the map.                  *)
rule_of(map, endpoint) == CHOOSE r \in map : r.endpoint = endpoint

(* Flask.send_static_file: the file, or NotFound when it does not exist.   *)
send_static_file(path) ==
  IF path \in static_files
    THEN [kind |-> "return", value |-> "file", effects |-> {"read"}]
    ELSE [kind |-> "raise", value |-> "NotFound", effects |-> {}]

(* Flask.dispatch_request: the view function registered for the endpoint   *)
(* is called.                                                              *)
call_view(endpoint, path) ==
  IF endpoint = "home_page" THEN home_page ELSE send_static_file(path)

(* Flask.make_response / handle_user_exception / handle_exception: a str   *)
(* return value becomes a 200 text/html response; an HTTPException becomes *)
(* its own response; any other exception becomes 500.                      *)
make_response(outcome) ==
  IF outcome.kind = "return"
    THEN [status |-> 200, body |-> outcome.value,
          content_type |-> "text/html; charset=utf-8"]
  ELSE IF outcome.value = "NotFound"
    THEN [status |-> 404, body |-> "Not Found",
          content_type |-> "text/html; charset=utf-8"]
  ELSE IF outcome.value = "MethodNotAllowed"
    THEN [status |-> 405, body |-> "Method Not Allowed",
          content_type |-> "text/html; charset=utf-8"]
  ELSE [status |-> 500, body |-> "Internal Server Error",
        content_type |-> "text/html; charset=utf-8"]

(* Flask.make_default_options_response: 200, empty body, an Allow header.  *)
make_default_options_response ==
  [status |-> 200, body |-> "", content_type |-> "text/html; charset=utf-8"]

(* werkzeug writes no body in answer to HEAD.                              *)
wire_response(method, resp) ==
  IF method = "HEAD" THEN [resp EXCEPT !.body = ""] ELSE resp

----------------------------------------------------------------------------
Init ==
  /\ phase = "start"
  /\ url_map = {}
  /\ view_functions = {}
  /\ reqs = [i \in Requests |-> FreeSlot]
  /\ effects = {}
  /\ sent = [i \in Requests |-> 0]

(* app.py, line 3: app = Flask(__name__).  The constructor registers the   *)
(* static rule.                                                            *)
CreateApp ==
  /\ phase = "start"
  /\ phase' = "app_created"
  /\ url_map' = url_map \cup {static_rule}
  /\ view_functions' = view_functions \cup {"static"}
  /\ UNCHANGED <<reqs, effects, sent>>

(* app.py, lines 5-7: the decorator registers home_page under the rule;    *)
(* the end of the module is reached.                                       *)
RegisterRoute ==
  /\ phase = "app_created"
  /\ phase' = "loaded"
  /\ url_map' = url_map \cup {home_rule}
  /\ view_functions' = view_functions \cup {"home_page"}
  /\ UNCHANGED <<reqs, effects, sent>>

(* The server hands a request to the application.                          *)
Accept(i, m, p) ==
  /\ phase = "loaded"
  /\ reqs[i].state = "free"
  /\ reqs' = [reqs EXCEPT ![i] = [FreeSlot EXCEPT !.state = "accepted",
                                                  !.method = m, !.path = p]]
  /\ UNCHANGED <<phase, url_map, view_functions, effects, sent>>

(* RequestContext.match_request                                            *)
Match(i) ==
  /\ reqs[i].state = "accepted"
  /\ reqs' = [reqs EXCEPT ![i].state = "matched",
                          ![i].endpoint = match(url_map, reqs[i].method, reqs[i].path)]
  /\ UNCHANGED <<phase, url_map, view_functions, effects, sent>>

(* Flask.full_dispatch_request: a routing exception is answered as such;   *)
(* OPTIONS is answered automatically; otherwise the view function is       *)
(* called and its outcome made into a response.  A view that does not      *)
(* return leaves the request where it is.                                  *)
Dispatch(i) ==
  /\ reqs[i].state = "matched"
  /\ LET r  == reqs[i]
         ep == r.endpoint
     IN  IF ep \in {"NotFound", "MethodNotAllowed"}
           THEN /\ reqs' = [reqs EXCEPT
                     ![i].state = "dispatched",
                     ![i].resp = make_response([kind |-> "raise", value |-> ep, effects |-> {}])]
                /\ UNCHANGED effects
         ELSE IF rule_of(url_map, ep).provide_automatic_options /\ r.method = "OPTIONS"
           THEN /\ reqs' = [reqs EXCEPT
                     ![i].state = "dispatched",
                     ![i].resp = make_default_options_response]
                /\ UNCHANGED effects
         ELSE LET out == call_view(ep, r.path)
              IN  /\ out.kind # "block"
                  /\ reqs' = [reqs EXCEPT
                        ![i].state = "dispatched",
                        ![i].invoked = TRUE,
                        ![i].outcome = out,
                        ![i].resp = make_response(out)]
                  /\ effects' = effects \cup out.effects
  /\ UNCHANGED <<phase, url_map, view_functions, sent>>

(* The response is written to the client, once.                            *)
Send(i) ==
  /\ reqs[i].state = "dispatched"
  /\ reqs' = [reqs EXCEPT ![i].state = "responded",
                          ![i].resp = wire_response(reqs[i].method, reqs[i].resp),
                          ![i].seq = served + 1]
  /\ sent' = [sent EXCEPT ![i] = sent[i] + 1]
  /\ UNCHANGED <<phase, url_map, view_functions, effects>>

Next ==
  \/ CreateApp
  \/ RegisterRoute
  \/ \E i \in Requests, m \in Methods, p \in Paths : Accept(i, m, p)
  \/ \E i \in Requests : Match(i)
  \/ \E i \in Requests : Dispatch(i)
  \/ \E i \in Requests : Send(i)

Spec == Init /\ [][Next]_vars

(* The server runs every accepted request to its end.                      *)
FairSpec ==
  /\ Spec
  /\ \A i \in Requests :
        WF_vars(Match(i)) /\ WF_vars(Dispatch(i)) /\ WF_vars(Send(i))

----------------------------------------------------------------------------
(* Properties.                                                             *)

Greeting == "Hello from my Flask app!"

IsGetRoot(i) ==
  reqs[i].state # "free" /\ reqs[i].method = "GET" /\ reqs[i].path = Root

HasResponse(i) == reqs[i].state \in {"dispatched", "responded"}

RanHomePage(i) == reqs[i].invoked /\ reqs[i].endpoint = "home_page"

\* C1: every answered GET / has status 200 and exactly the greeting as its
\* body.
C1_GetRootGreeting ==
  \A i \in Requests :
    (IsGetRoot(i) /\ reqs[i].state = "responded")
      => (reqs[i].resp.status = 200 /\ reqs[i].resp.body = Greeting)

C1_Witness ==
  \E i \in Requests :
    IsGetRoot(i) /\ reqs[i].state = "responded" /\ reqs[i].resp.status = 200

C3_OnlyGetRoot ==
  \A i \in Requests :
    RanHomePage(i) => (reqs[i].method = "GET" /\ reqs[i].path = Root)

\* C3, amended: home_page runs only for requests to "/" whose method is GET
\* or HEAD; no other path and no other method reaches it.
C3_OnlyGetOrHeadRoot ==
  \A i \in Requests :
    RanHomePage(i) => (reqs[i].method \in {"GET", "HEAD"} /\ reqs[i].path = Root)

C3_Witness ==
  \E i \in Requests :
    RanHomePage(i) /\ reqs[i].method = "HEAD" /\ reqs[i].path = Root

\* C4: POST / is answered with a status other than 200, and the answer does
\* not come from home_page.
C4_PostRootRejected ==
  \A i \in Requests :
    (reqs[i].method = "POST" /\ reqs[i].path = Root /\ HasResponse(i))
      => ( /\ reqs[i].resp.status # 200
           /\ ~reqs[i].invoked
           /\ reqs[i].resp.body # Greeting )

C4_Witness ==
  \E i \in Requests :
    /\ reqs[i].method = "POST" /\ reqs[i].path = Root
    /\ reqs[i].state = "responded" /\ reqs[i].resp.status = 405

C6_ConcurrentIdentical ==
  \A i, j \in Requests :
    (i # j /\ IsGetRoot(i) /\ HasResponse(i) /\ IsGetRoot(j) /\ HasResponse(j))
      => ( /\ reqs[i].resp = reqs[j].resp
           /\ reqs[i].resp.status = 200
           /\ reqs[i].resp.body = Greeting )

C6_Witness ==
  \E i, j \in Requests :
    /\ i # j
    /\ IsGetRoot(i) /\ reqs[i].state = "dispatched"
    /\ IsGetRoot(j) /\ reqs[j].state = "dispatched"

\* C7: a step in which home_page runs changes neither the route table nor
\* the view functions, performs no effect, and touches no other request.
C7_NoSideEffects ==
  [][\A i \in Requests :
       (~reqs[i].invoked /\ reqs'[i].invoked /\ reqs'[i].endpoint = "home_page")
         => ( /\ url_map' = url_map
              /\ view_functions' = view_functions
              /\ effects' = effects
              /\ phase' = phase
              /\ \A j \in Requests \ {i} : reqs'[j] = reqs[j] )]_vars

C7_Witness ==
  \E i \in Requests : RanHomePage(i) /\ IsGetRoot(i) /\ effects = {}

\* C8: whenever home_page has run for a request it returned normally, and
\* the response made from it is not a server error.
C8_HandlerNeverFails ==
  \A i \in Requests :
    RanHomePage(i)
      => ( /\ reqs[i].outcome.kind = "return"
           /\ HasResponse(i)
           /\ reqs[i].resp.status < 500 )

C8_Witness ==
  \E i \in Requests :
    RanHomePage(i) /\ reqs[i].outcome.kind = "return" /\ reqs[i].state = "dispatched"

\* C9 as stated: once the module is loaded the route table has exactly one
\* entry, "/" to home_page.
C9_ExactlyOneRoute ==
  phase = "loaded"
    => ( /\ Cardinality(url_map) = 1
         /\ \A r \in url_map : r.prefix = Root /\ r.endpoint = "home_page" )

\* C9, amended: once the module is loaded the route table has exactly two
\* entries, the static-file rule of the application object and "/" to
\* home_page (for GET, HEAD and OPTIONS), and it is the same in every state
\* after that, whatever requests are made.
C9_StaticRouteTable ==
  phase = "loaded"
    => ( /\ url_map =
              { [prefix |-> <<"static">>, converter |-> "path",
                 endpoint |-> "static", methods |-> {"GET", "HEAD", "OPTIONS"},
                 provide_automatic_options |-> TRUE],
                [prefix |-> << >>, converter |-> "none",
                 endpoint |-> "home_page", methods |-> {"GET", "HEAD", "OPTIONS"},
                 provide_automatic_options |-> TRUE] }
         /\ view_functions = {"static", "home_page"} )

C9_Witness ==
  phase = "loaded" /\ \A i \in Requests : reqs[i].state = "responded"

\* C10: under fair scheduling every accepted GET / is answered, and no
\* request is ever answered more than once.
C10_ExactlyOneResponse ==
  \A i \in Requests :
    /\ [](sent[i] <= 1)
    /\ (IsGetRoot(i) /\ reqs[i].state = "accepted") ~> (sent[i] = 1 /\ IsGetRoot(i))

C10_Witness ==
  \E i, j \in Requests :
    /\ IsGetRoot(i) /\ sent[i] = 1
    /\ j \in inFlight

====
